---- MODULE Spec2Model ----
(***************************************************************************)
(* Order fulfilment and delivery scheduling of the subscription-delivery   *)
(* backend: createOrderFromPayment (services/order.service.ts), the        *)
(* delivery date scan (services/delivery-date.service.ts), the operational *)
(* calendar lookup (services/operationalDate.service.ts), the geocoding    *)
(* adapter (utils/geocode.ts) and the admin order operations.              *)
(*                                                                         *)
(* Instants are integers in ticks, DayTicks ticks to a UTC calendar day;   *)
(* a UTC calendar day ("YYYY-MM-DD") is the number instant \div DayTicks.  *)
(* Prices are in thousandths of the currency unit so that                  *)
(* Math.round(price * 100) is a computation and not the identity.          *)
(***************************************************************************)
EXTENDS Integers, Sequences, FiniteSets, TLC

\* ---------------------------------------------------------------- bounds
DayTicks == 2
MaxNow == 1
MaxSearchDays == 2
MaxDeliveries == 2
MaxAdminOps == 2

\* ------------------------------------------------------- value universes
TZOffsets == {0 - 1, 0, 1}
Invocations == {"i1", "i2"}
PaymentIntents == {"pi_1", "pi_2"}
CustomerIds == {"c1"}
PackageIds == {"p1"}
Prices == {24990, 19985}
Amounts == {2499, 1999}
GeocodeOutcomes == {"found", "notfound", "timeout", "throws"}

\* A number that is not there (null / undefined) in a numeric field.
NoNumber == -1
\* An address field that is not set; set fields carry a positive code.
Unset == 0

OrderStatus_ACTIVE == "Active"
OrderStatus_EXPIRED == "Expired"
OrderStatus_CANCELLED == "Cancelled"
DeliveryStatus_PENDING_ASSIGNMENT == "Pending Assignment"
DeliveryStatus_ASSIGNED == "Assigned"
DeliveryStatus_OUT_FOR_DELIVERY == "Out for Delivery"
DeliveryStatus_DELIVERED == "Delivered"
DeliveryStatus_FAILED == "Failed"
DeliveryStatus_CANCELLED == "Cancelled"
OrderStatus == {OrderStatus_ACTIVE, OrderStatus_EXPIRED, OrderStatus_CANCELLED}
DeliveryStatus ==
  {DeliveryStatus_PENDING_ASSIGNMENT, DeliveryStatus_ASSIGNED,
   DeliveryStatus_OUT_FOR_DELIVERY, DeliveryStatus_DELIVERED,
   DeliveryStatus_FAILED, DeliveryStatus_CANCELLED}
\* DeliveryStatus.SCHEDULED: the enumeration has no such member, so the
\* expression is undefined and the schema default takes its place.
Undefined == "undefined"
\* DeliveryStatus.SCHEDULED is not a member of the enumeration in
\* Order.model.ts: it evaluates to undefined, or, in a build whose
\* enumeration has the member, to its string.
ScheduledMemberValues == {Undefined, "Scheduled"}
DeliveryStatusDefault(v) ==
  IF v = Undefined THEN DeliveryStatus_PENDING_ASSIGNMENT ELSE v

VARIABLES
  tz,                \* the server's local-time offset from UTC, in ticks
  scheduledMember,   \* what DeliveryStatus.SCHEDULED evaluates to in the build
  setCalls,          \* the setOperationalDates calls
  lastQuery,         \* history: the last getOperationalDateStatus and its result
  everSet,           \* history: the days a calendar record was ever written for
  now,               \* the clock
  customers,         \* the Customer collection
  packages,          \* the Package collection
  operationalDates,  \* the OperationalDate collection
  orders,            \* the Order collection (committed documents)
  inv,               \* the createOrderFromPayment invocations
  calls,             \* the invocations the payment gateway adapter makes
  events,            \* the payment-confirmed events it delivers
  adminOps,          \* the admin updates made so far
  everCreated,       \* history: Orders committed so far, per payment intent
  lastOp,            \* history: the last admin operation and its outcome
  webhook            \* the webhook handler's last answer to the payment gateway

calendarVars == <<setCalls, lastQuery, everSet>>

DeliveryStatus_SCHEDULED == scheduledMember

\* Object.values(DeliveryStatus), the values the schema accepts.
DeliveryStatusValues == DeliveryStatus \cup ({scheduledMember} \ {Undefined})

vars == <<tz, scheduledMember, webhook, calendarVars, now, customers, packages, operationalDates, orders, inv, calls,
          events, adminOps, everCreated, lastOp>>

\* ------------------------------------------------------------ date helpers
\* Date.setUTCHours(0,0,0,0)
UTCMidnight(t) == (t \div DayTicks) * DayTicks
\* date-fns startOfDay: midnight of the server's local day
StartOfDay(t) == ((t + tz) \div DayTicks) * DayTicks - tz
\* date-fns addDays
AddDays(t, n) == t + n * DayTicks
\* toISOString().split("T")[0]: the UTC calendar day
DateString(t) == t \div DayTicks
\* new Date("YYYY-MM-DD"): UTC midnight of that day
ParseDateString(d) == d * DayTicks

\* ------------------------------------------------------------- sequences
RECURSIVE IsAscending(_)
IsAscending(s) ==
  IF Len(s) <= 1 THEN TRUE
  ELSE s[1] < s[2] /\ IsAscending(Tail(s))

\* ---------------------------------------------------- operational calendar
\* OperationalDateService.getOperationalDateStatus: the record of the day, as
\* a set (empty: null).
GetOperationalDateStatus(dateString) ==
  LET queryDate == UTCMidnight(ParseDateString(dateString))
  IN {r \in operationalDates : r.date = queryDate}

\* A scan that takes a day whose lookup threw for an enabled day.
ThrownCountsAsEnabled(dateString, lookupThrows) ==
  lookupThrows \/ \E r \in GetOperationalDateStatus(dateString) : r.isDeliveryEnabled

\* operationalStatus?.isDeliveryEnabled of one lookup; a lookup that throws
\* is caught and the day counts as not enabled.
LookupEnabled(dateString, lookupThrows) ==
  IF lookupThrows THEN FALSE
  ELSE \E r \in GetOperationalDateStatus(dateString) : r.isDeliveryEnabled

\* The loop condition of DeliveryDateService.getAvailableDates.
ScanContinues(scheduledDates, numberOfDeliveries, daysSearched) ==
  /\ Len(scheduledDates) < numberOfDeliveries
  /\ daysSearched <= MaxSearchDays

\* ------------------------------------------------------------- geocoding
\* geocodeAddress: coordinates, or null (Unset) when the address is empty,
\* nothing is found, or the request fails or times out.
GeocodeAddress(addr, outcome) ==
  IF addr.address = Unset /\ addr.city = Unset /\ addr.postalCode = Unset
  THEN [latitude |-> Unset, longitude |-> Unset]
  ELSE IF outcome = "found"
       THEN [latitude |-> 1, longitude |-> 1]
       ELSE [latitude |-> Unset, longitude |-> Unset]

\* ------------------------------------------------- createOrderFromPayment
\* Math.round(packagePrice * 100)
ExpectedAmountCents(price) == (price + 5) \div 10

IdleInvocation ==
  [pc |-> "idle", pi |-> "", amountPaid |-> 0, userId |-> "", packageId |-> "",
   tx |-> "none", ended |-> FALSE,
   existed |-> FALSE, geo |-> "none", geocodeCalls |-> 0,
   packagePrice |-> 0, numberOfDeliveries |-> 0,
   deliveryAddress |-> [address |-> Unset, city |-> Unset, postalCode |-> Unset,
                        currentLocation |-> Unset, latitude |-> Unset,
                        longitude |-> Unset],
   orderStartDate |-> 0, currentDate |-> 0, daysSearched |-> 0,
   scheduledDates |-> <<>>, failedDays |-> {}, calendars |-> {},
   pending |-> {}, result |-> {}, statusCode |-> 0, errAt |-> ""]

\* failedDays: the days whose lookup threw; calendars: the states the
\* OperationalDate collection went through during the scan.
\* The locals that no longer matter once an invocation has ended.
Forget(r) ==
  [r EXCEPT !.currentDate = 0, !.daysSearched = 0, !.pending = {},
            !.scheduledDates = <<>>, !.failedDays = {}, !.calendars = {},
            !.deliveryAddress = IdleInvocation.deliveryAddress]

\* A catch block that rethrows without aborting the transaction or ending
\* the session.
CatchWithoutCleanup(r, statusCode, at) ==
  [Forget(r) EXCEPT !.pc = "threw",
                    !.statusCode = IF statusCode = 0 THEN 500 ELSE statusCode,
                    !.errAt = at]

\* The catch block: abort the transaction if one is in progress, end the
\* session, and rethrow with statusCode 500 unless the error carries one.
CatchBlock(r, statusCode, at) ==
  [Forget(r) EXCEPT !.pc = "threw",
                    !.tx = IF r.tx = "active" THEN "aborted" ELSE r.tx,
                    !.ended = TRUE,
                    !.statusCode = IF statusCode = 0 THEN 500 ELSE statusCode,
                    !.errAt = at]

\* The Orders the idempotency check finds.
ExistingOrders(pi) ==
  {o \in orders : o.paymentDetails.stripePaymentIntentId = pi}

\* Step 2: the paid amount is not the package price in cents.
AmountMismatch(amountPaid, price) == amountPaid # ExpectedAmountCents(price)

\* A coordinator that ignores the Order it found and goes on to geocode.
ProceedDespiteExisting(r) ==
  [r EXCEPT !.pc = "geocode", !.geocodeCalls = r.geocodeCalls + 1]

\* Step 3, an Order of the payment intent exists: abort the transaction, end
\* the session and return that Order.
OnExistingOrder(r) ==
  [r EXCEPT !.pc = "returned", !.tx = "aborted", !.ended = TRUE,
            !.result = {CHOOSE o \in ExistingOrders(r.pi) : TRUE}]

\* Steps 1-4 up to the call of the geocoder: start the session and the
\* transaction, fetch Customer and Package, verify the amount, look for an
\* Order of the payment intent.  All reads are of the transaction's snapshot.
BeginOutcome(r0, storageFails) ==
  LET r == [r0 EXCEPT !.tx = "active",
                      !.existed = ExistingOrders(r0.pi) # {}]
      cust == {c \in customers : c.id = r.userId}
      pkg == {p \in packages : p.id = r.packageId}
  IN IF storageFails THEN CatchBlock(r, 0, "fetch")
     ELSE IF cust = {} THEN CatchBlock(r, 0, "customer")
     ELSE IF pkg = {} THEN CatchBlock(r, 0, "package")
     ELSE LET c == CHOOSE x \in cust : TRUE
              p == CHOOSE x \in pkg : TRUE
              rp == [r EXCEPT !.packagePrice = p.price,
                              !.numberOfDeliveries = p.days]
          IN IF p.days <= 0 THEN CatchBlock(rp, 0, "package-data")
             ELSE IF AmountMismatch(r.amountPaid, p.price)
             THEN CatchBlock(rp, 0, "amount")
             ELSE IF ExistingOrders(r.pi) # {}
             THEN OnExistingOrder(rp)
             ELSE [rp EXCEPT !.pc = "geocode",
                            !.deliveryAddress =
                               [address |-> c.address, city |-> c.city,
                                postalCode |-> c.postalCode,
                                currentLocation |-> c.currentLocation,
                                latitude |-> Unset, longitude |-> Unset],
                            !.geocodeCalls = r.geocodeCalls + 1]

Begin(i, e, storageFails) ==
  /\ i \in calls
  /\ e \in events
  /\ inv[i].pc = "idle"
  /\ inv' = [inv EXCEPT ![i] =
               BeginOutcome([inv[i] EXCEPT !.pi = e.stripePaymentIntentId,
                                           !.amountPaid = e.amountPaid,
                                           !.userId = e.userId,
                                           !.packageId = e.packageId],
                            storageFails)]
  /\ UNCHANGED <<tz, scheduledMember, webhook, calendarVars, now, customers, packages, operationalDates, orders,
                 calls, events, adminOps, everCreated, lastOp>>

\* The same steps when abortTransaction throws on the duplicate path: the
\* error is caught by the catch block, which aborts if the transaction is
\* still in progress, ends the session and rethrows with statusCode 500.
BeginAbortFails(i, e) ==
  /\ i \in calls
  /\ e \in events
  /\ inv[i].pc = "idle"
  /\ LET out == BeginOutcome([inv[i] EXCEPT !.pi = e.stripePaymentIntentId,
                                            !.amountPaid = e.amountPaid,
                                            !.userId = e.userId,
                                            !.packageId = e.packageId],
                             FALSE)
     IN /\ out.pc = "returned"
        /\ inv' = [inv EXCEPT ![i] =
                     CatchBlock([out EXCEPT !.pc = "idle", !.tx = "active",
                                            !.ended = FALSE, !.result = {}],
                                0, "abort")]
  /\ UNCHANGED <<tz, scheduledMember, webhook, calendarVars, now, customers,
                 packages, operationalDates, orders, calls, events, adminOps,
                 everCreated, lastOp>>

\* A coordinator without the try/catch around the geocoder call.
GeocodeThrowIsFatal(r) == CatchBlock(r, 0, "geocode")

\* What a geocoder exception does to order creation: it is caught and the
\* Order goes on without coordinates.
OnGeocodeThrow(r) == r

\* Steps 4-6 up to the first calendar lookup: the geocoder has answered.
GeocodeOutcome(r, outcome) ==
  LET coords == GeocodeAddress(r.deliveryAddress, outcome)
      withGeo == [r EXCEPT !.geo = IF coords.latitude = Unset
                                   THEN "null" ELSE "found",
                           !.deliveryAddress.latitude = coords.latitude,
                           !.deliveryAddress.longitude = coords.longitude]
      orderStartDate == now
      firstPossibleDeliveryDay == UTCMidnight(AddDays(orderStartDate, 1))
      scan == [withGeo EXCEPT !.orderStartDate = orderStartDate,
                              !.currentDate = StartOfDay(firstPossibleDeliveryDay),
                              !.daysSearched = 0,
                              !.scheduledDates = <<>>,
                              !.calendars = {operationalDates},
                              !.pc = "scan"]
  IN IF outcome = "throws"
     THEN OnGeocodeThrow([scan EXCEPT !.geo = "throws"])
     ELSE scan

GeocodeDone(i, outcome) ==
  /\ inv[i].pc = "geocode"
  /\ inv' = [inv EXCEPT ![i] = GeocodeOutcome(inv[i], outcome)]
  /\ UNCHANGED <<tz, scheduledMember, webhook, calendarVars, now, customers, packages, operationalDates, orders,
                 calls, events, adminOps, everCreated, lastOp>>

\* A scheduler that returns the dates it found, however few (but one at
\* least), with a coordinator that does not check their number.
AcceptPartialSchedule(r) ==
  IF r.scheduledDates = <<>>
  THEN CatchBlock(r, 400, "schedule")
  ELSE [r EXCEPT !.pc = "create"]

\* What getAvailableDates does when the scan ends short: it throws
\* AppError(400); createOrderFromPayment checks the length once more.
ScanEnd(r) ==
  IF Len(r.scheduledDates) < r.numberOfDeliveries
  THEN CatchBlock(r, 400, "schedule")
  ELSE [r EXCEPT !.pc = "create"]

\* One iteration of the scan loop: look the day up, keep it if enabled,
\* move to the next day; after the last iteration, the end of the scan.
ScanOutcome(r, lookupThrows) ==
  LET dateString == DateString(r.currentDate)
      found == IF LookupEnabled(dateString, lookupThrows)
               THEN Append(r.scheduledDates, r.currentDate)
               ELSE r.scheduledDates
      next == [r EXCEPT !.scheduledDates = found,
                        !.failedDays = IF lookupThrows
                                       THEN @ \cup {dateString} ELSE @,
                        !.currentDate = StartOfDay(AddDays(r.currentDate, 1)),
                        !.daysSearched = r.daysSearched + 1]
  IN IF ScanContinues(next.scheduledDates, next.numberOfDeliveries,
                      next.daysSearched)
     THEN next
     ELSE ScanEnd(next)

ScanDay(i, lookupThrows) ==
  /\ inv[i].pc = "scan"
  /\ inv' = [inv EXCEPT ![i] = ScanOutcome(inv[i], lookupThrows)]
  /\ UNCHANGED <<tz, scheduledMember, webhook, calendarVars, now, customers, packages, operationalDates, orders,
                 calls, events, adminOps, everCreated, lastOp>>

\* Step 7: the document handed to Order.create, with the schema defaults.
NewOrderData(i, r) ==
  [id |-> i,
   orderNumber |-> i,
   customer |-> r.userId,
   package |-> r.packageId,
   packageName |-> "Basic",
   packagePrice |-> r.packagePrice,
   deliveryDays |-> r.numberOfDeliveries,
   startDate |-> r.orderStartDate,
   endDate |-> r.scheduledDates[Len(r.scheduledDates)],
   status |-> OrderStatus_ACTIVE,
   deliverySchedule |-> r.scheduledDates,
   deliveryAddress |-> r.deliveryAddress,
   paymentDetails |-> [stripePaymentIntentId |-> r.pi,
                       amountPaid |-> r.amountPaid],
   deliveryStatus |-> DeliveryStatusDefault(DeliveryStatus_SCHEDULED),
   assignedDriver |-> "null",
   deliverySequence |-> NoNumber,
   proofOfDeliveryUrl |-> ""]

\* A store without the unique index.
NoUniqueIndex(i, pi) == FALSE

\* The unique index on paymentDetails.stripePaymentIntentId: an insert
\* conflicts with a committed Order of the same payment intent and with an
\* uncommitted insert of one by another transaction.
UniqueConflict(i, pi) ==
  \/ ExistingOrders(pi) # {}
  \/ \E j \in Invocations \ {i} :
        /\ inv[j].tx = "active"
        /\ \E o \in inv[j].pending : o.paymentDetails.stripePaymentIntentId = pi

\* Step 8: Order.create inside the transaction.
CreateOutcome(i, r, storageFails) ==
  IF storageFails THEN CatchBlock(r, 0, "create")
  ELSE IF UniqueConflict(i, r.pi) THEN CatchBlock(r, 0, "duplicate-key")
  ELSE [r EXCEPT !.pending = {NewOrderData(i, r)}, !.pc = "commit"]

\* Order.create without the session option: the document is written outside
\* the transaction.
VisibleWithoutSession(r) == r.pending

\* The documents a transaction makes visible to other readers, and when:
\* none on the insert, the inserted ones on the commit.
VisibleOnCreate(r) == {}
VisibleOnCommit(r) == r.pending

Create(i, storageFails) ==
  /\ inv[i].pc = "create"
  /\ LET r == CreateOutcome(i, inv[i], storageFails)
     IN /\ inv' = [inv EXCEPT ![i] = r]
        /\ orders' = orders \cup VisibleOnCreate(r)
  /\ UNCHANGED <<tz, scheduledMember, webhook, calendarVars, now, customers, packages, operationalDates, calls, events,
                 adminOps, everCreated, lastOp>>

\* Step 9: commitTransaction.
Commit(i, storageFails) ==
  /\ inv[i].pc = "commit"
  /\ IF storageFails
     THEN /\ inv' = [inv EXCEPT ![i] = CatchBlock(inv[i], 0, "commit")]
          /\ UNCHANGED <<orders, everCreated>>
     ELSE /\ orders' = orders \cup VisibleOnCommit(inv[i])
          /\ everCreated' =
               [everCreated EXCEPT ![inv[i].pi] = @ + 1]
          /\ inv' = [inv EXCEPT ![i] =
                       [Forget(inv[i]) EXCEPT !.pc = "returned",
                                              !.tx = "committed",
                                              !.ended = TRUE,
                                              !.result = inv[i].pending]]
  /\ UNCHANGED <<tz, scheduledMember, webhook, calendarVars, now, customers, packages, operationalDates, calls, events,
                 adminOps, lastOp>>

\* ------------------------------------------------------------------ clock
Tick ==
  /\ now < MaxNow
  /\ now' = now + 1
  /\ UNCHANGED <<tz, scheduledMember, webhook, calendarVars, customers, packages, operationalDates, orders, inv,
                 calls, events, adminOps, everCreated, lastOp>>

\* -------------------------------------------------------- admin operations
DriverIds == {"d1"}
AdminOrderIds == Invocations \cup {"not-an-id"}

\* mongoose.Types.ObjectId.isValid
IsValidObjectId(id) == id \in Invocations \cup DriverIds

\* A key of deliveryAddress that the patch does not carry.
NotInPatch == NoNumber
AddressKeys ==
  {"address", "city", "postalCode", "currentLocation", "latitude", "longitude"}
NoAddressPatch == [k \in AddressKeys |-> NotInPatch]

\* updateData with none of the keys of allowedUpdates.
EmptyPatch ==
  [status |-> [present |-> FALSE, v |-> ""],
   deliveryStatus |-> [present |-> FALSE, v |-> ""],
   assignedDriver |-> [present |-> FALSE, kind |-> "null", id |-> ""],
   deliverySequence |-> [present |-> FALSE, isNumber |-> FALSE, n |-> 0],
   proofOfDeliveryUrl |-> [present |-> FALSE, v |-> ""],
   deliveryAddress |-> [present |-> FALSE, isObject |-> FALSE,
                        v |-> NoAddressPatch],
   startDate |-> [present |-> FALSE, isString |-> FALSE, valid |-> FALSE,
                  t |-> 0],
   endDate |-> [present |-> FALSE, isString |-> FALSE, valid |-> FALSE,
                t |-> 0],
   packageName |-> [present |-> FALSE, v |-> ""],
   packagePrice |-> [present |-> FALSE, isNumber |-> FALSE, n |-> 0],
   deliveryDays |-> [present |-> FALSE, isNumber |-> FALSE, n |-> 0],
   deliverySchedule |-> [present |-> FALSE, v |-> <<>>]]

NoOp ==
  [op |-> "none", id |-> "", statusCode |-> 0, patch |-> EmptyPatch,
   before |-> {}, after |-> {}, saveCalled |-> FALSE, storeChanged |-> FALSE,
   at |-> 0]

\* getAdminOrderById: 400 for a malformed id, 404 when there is no such
\* Order, else the Order.
GetAdminOrderById(orderId) ==
  /\ LET found == {o \in orders : o.id = orderId}
         base == [NoOp EXCEPT !.op = "get", !.id = orderId, !.before = found]
     IN lastOp' =
          IF ~IsValidObjectId(orderId) THEN [base EXCEPT !.statusCode = 400]
          ELSE IF found = {} THEN [base EXCEPT !.statusCode = 404]
          ELSE [base EXCEPT !.statusCode = 200, !.after = found]
  /\ UNCHANGED <<tz, scheduledMember, webhook, calendarVars, now, customers, packages,
                 operationalDates, orders, inv, calls, events, adminOps,
                 everCreated>>

\* A schema without validators.
AcceptsAnything(o) == TRUE

\* A loop that marks the Order changed for every key the payload carries.
ChangedWheneverPresent(current, f) == f.present

\* The last branch of the loop, a directly assigned field (status,
\* deliveryStatus, proofOfDeliveryUrl, packageName): order[key] !== newValue.
DirectChanged(current, f) == f.present /\ current # f.v

\* packagePrice, deliveryDays, deliverySequence: only a number that differs.
NumberChanged(current, f) == f.present /\ f.isNumber /\ current # f.n

\* startDate, endDate: only a string that parses to another instant.
DateChanged(current, f) ==
  f.present /\ f.isString /\ f.valid /\ current # f.t

\* deliverySchedule falls to the last branch: an array sent by the caller is
\* never identical (!==) to the document's array, so it is always assigned.
ScheduleChanged(current, f) == f.present

\* assignedDriver: null, a valid id string, or an object with a valid _id;
\* anything else leaves driverIdToSet at its initial null.
DriverIdToSet(f) ==
  IF f.kind = "null" THEN "null"
  ELSE IF f.kind = "string" /\ IsValidObjectId(f.id) THEN f.id
  ELSE IF f.kind = "object" /\ f.id # "" /\ IsValidObjectId(f.id) THEN f.id
  ELSE "null"

DriverChanged(current, f) == f.present /\ current # DriverIdToSet(f)

\* Object.prototype.hasOwnProperty.call(currentAddr, addrKey)
HasOwn(currentAddr, k) == currentAddr[k] # Unset

AddressKeyChanged(currentAddr, f, k) ==
  /\ f.present /\ f.isObject
  /\ f.v[k] # NotInPatch
  /\ HasOwn(currentAddr, k)
  /\ currentAddr[k] # f.v[k]

\* The loop over allowedUpdates: the document as modified in memory, and
\* changesMade.
ApplyPatch(o, patch) ==
  LET addr == [k \in AddressKeys |->
                 IF AddressKeyChanged(o.deliveryAddress, patch.deliveryAddress, k)
                 THEN patch.deliveryAddress.v[k]
                 ELSE o.deliveryAddress[k]]
      changed ==
        \/ DirectChanged(o.status, patch.status)
        \/ DirectChanged(o.deliveryStatus, patch.deliveryStatus)
        \/ DriverChanged(o.assignedDriver, patch.assignedDriver)
        \/ NumberChanged(o.deliverySequence, patch.deliverySequence)
        \/ DirectChanged(o.proofOfDeliveryUrl, patch.proofOfDeliveryUrl)
        \/ \E k \in AddressKeys :
              AddressKeyChanged(o.deliveryAddress, patch.deliveryAddress, k)
        \/ DateChanged(o.startDate, patch.startDate)
        \/ DateChanged(o.endDate, patch.endDate)
        \/ DirectChanged(o.packageName, patch.packageName)
        \/ NumberChanged(o.packagePrice, patch.packagePrice)
        \/ NumberChanged(o.deliveryDays, patch.deliveryDays)
        \/ ScheduleChanged(o.deliverySchedule, patch.deliverySchedule)
  IN [changesMade |-> changed,
      order |->
        [o EXCEPT
           !.status = IF DirectChanged(@, patch.status)
                      THEN patch.status.v ELSE @,
           !.deliveryStatus = IF DirectChanged(@, patch.deliveryStatus)
                              THEN patch.deliveryStatus.v ELSE @,
           !.assignedDriver = IF DriverChanged(@, patch.assignedDriver)
                              THEN DriverIdToSet(patch.assignedDriver) ELSE @,
           !.deliverySequence = IF NumberChanged(@, patch.deliverySequence)
                                THEN patch.deliverySequence.n ELSE @,
           !.proofOfDeliveryUrl = IF DirectChanged(@, patch.proofOfDeliveryUrl)
                                  THEN patch.proofOfDeliveryUrl.v ELSE @,
           !.deliveryAddress = [latitude |-> addr["latitude"],
                                longitude |-> addr["longitude"],
                                address |-> addr["address"],
                                city |-> addr["city"],
                                postalCode |-> addr["postalCode"],
                                currentLocation |-> addr["currentLocation"]],
           !.startDate = IF DateChanged(@, patch.startDate)
                         THEN patch.startDate.t ELSE @,
           !.endDate = IF DateChanged(@, patch.endDate)
                       THEN patch.endDate.t ELSE @,
           !.packageName = IF DirectChanged(@, patch.packageName)
                           THEN patch.packageName.v ELSE @,
           !.packagePrice = IF NumberChanged(@, patch.packagePrice)
                            THEN patch.packagePrice.n ELSE @,
           !.deliveryDays = IF NumberChanged(@, patch.deliveryDays)
                            THEN patch.deliveryDays.n ELSE @,
           !.deliverySchedule = IF ScheduleChanged(@, patch.deliverySchedule)
                                THEN patch.deliverySchedule.v ELSE @]]

\* The validators order.save() runs: the enumerations and required fields.
SchemaValid(o) ==
  /\ o.status \in OrderStatus
  /\ o.deliveryStatus \in DeliveryStatusValues
  /\ o.packageName # ""

\* updateAdminOrder: 400 for a malformed id, 404 for no such Order; without a
\* change the Order is fetched again and returned; otherwise it is saved, and
\* a save the validators reject is a 400.
UpdateAdminOrder(orderId, patch) ==
  /\ adminOps < MaxAdminOps
  /\ adminOps' = adminOps + 1
  /\ LET found == {o \in orders : o.id = orderId}
         base == [NoOp EXCEPT !.op = "update", !.id = orderId,
                              !.patch = patch, !.before = found]
     IN IF ~IsValidObjectId(orderId)
        THEN /\ lastOp' = [base EXCEPT !.statusCode = 400]
             /\ UNCHANGED orders
        ELSE IF found = {}
        THEN /\ lastOp' = [base EXCEPT !.statusCode = 404]
             /\ UNCHANGED orders
        ELSE LET o == CHOOSE x \in found : TRUE
                 applied == ApplyPatch(o, patch)
             IN IF ~applied.changesMade
                THEN /\ lastOp' = [base EXCEPT !.statusCode = 200,
                                               !.after = found]
                     /\ UNCHANGED orders
                ELSE IF ~SchemaValid(applied.order)
                THEN /\ lastOp' = [base EXCEPT !.statusCode = 400,
                                               !.saveCalled = TRUE]
                     /\ UNCHANGED orders
                ELSE /\ orders' = (orders \ found) \cup {applied.order}
                     /\ lastOp' = [base EXCEPT !.statusCode = 200,
                                               !.saveCalled = TRUE,
                                               !.after = {applied.order},
                                               !.storeChanged = orders' # orders]
  /\ UNCHANGED <<tz, scheduledMember, webhook, calendarVars, now, customers, packages, operationalDates, inv, calls,
                 events, everCreated>>

\* deleteAdminOrder: 400 for a malformed id, findByIdAndDelete, 404 when
\* there is no such Order.
DeleteAdminOrder(orderId) ==
  /\ LET found == {o \in orders : o.id = orderId}
         base == [NoOp EXCEPT !.op = "delete", !.id = orderId,
                              !.before = found]
     IN IF ~IsValidObjectId(orderId)
        THEN /\ lastOp' = [base EXCEPT !.statusCode = 400]
             /\ UNCHANGED orders
        ELSE /\ orders' = orders \ found
             /\ lastOp' = [base EXCEPT !.statusCode =
                                          IF found = {} THEN 404 ELSE 200,
                                       !.storeChanged = orders' # orders]
  /\ UNCHANGED <<tz, scheduledMember, webhook, calendarVars, now, customers, packages, operationalDates, inv, calls,
                 events, adminOps, everCreated>>

\* ------------------------------------------ the admin's update payloads
StatusPatches ==
  {[EmptyPatch EXCEPT !.status = [present |-> TRUE, v |-> x]] :
     x \in OrderStatus \cup {"Paused"}}
DeliveryStatusPatches ==
  {[EmptyPatch EXCEPT !.deliveryStatus = [present |-> TRUE, v |-> x]] :
     x \in DeliveryStatus \cup {"Scheduled"}}
DriverPatches ==
  {[EmptyPatch EXCEPT !.assignedDriver = x] :
     x \in {[present |-> TRUE, kind |-> "null", id |-> ""],
            [present |-> TRUE, kind |-> "string", id |-> "d1"],
            [present |-> TRUE, kind |-> "string", id |-> "garbage"],
            [present |-> TRUE, kind |-> "object", id |-> "d1"],
            [present |-> TRUE, kind |-> "object", id |-> ""],
            [present |-> TRUE, kind |-> "other", id |-> ""]}}
SequencePatches ==
  {[EmptyPatch EXCEPT !.deliverySequence = x] :
     x \in {[present |-> TRUE, isNumber |-> TRUE, n |-> 1],
            [present |-> TRUE, isNumber |-> FALSE, n |-> 0]}}
ProofPatches ==
  {[EmptyPatch EXCEPT !.proofOfDeliveryUrl = [present |-> TRUE, v |-> x]] :
     x \in {"proof-1", "proof-2"}}
AddressPatchValues ==
  {[NoAddressPatch EXCEPT !["address"] = 1],
   [NoAddressPatch EXCEPT !["address"] = 2],
   [NoAddressPatch EXCEPT !["currentLocation"] = 2],
   [NoAddressPatch EXCEPT !["latitude"] = 1],
   [NoAddressPatch EXCEPT !["latitude"] = 2],
   [NoAddressPatch EXCEPT !["address"] = 1, !["city"] = 2]}
AddressPatches ==
  {[EmptyPatch EXCEPT !.deliveryAddress =
      [present |-> TRUE, isObject |-> TRUE, v |-> x]] :
     x \in AddressPatchValues}
  \cup {[EmptyPatch EXCEPT !.deliveryAddress =
           [present |-> TRUE, isObject |-> FALSE, v |-> NoAddressPatch]]}
DatePatchValues ==
  {[present |-> TRUE, isString |-> TRUE, valid |-> TRUE, t |-> x] :
     x \in {0, ParseDateString(1), ParseDateString(2)}}
  \cup {[present |-> TRUE, isString |-> TRUE, valid |-> FALSE, t |-> 0],
        [present |-> TRUE, isString |-> FALSE, valid |-> FALSE, t |-> 0]}
StartDatePatches == {[EmptyPatch EXCEPT !.startDate = x] : x \in DatePatchValues}
EndDatePatches == {[EmptyPatch EXCEPT !.endDate = x] : x \in DatePatchValues}
NamePatches ==
  {[EmptyPatch EXCEPT !.packageName = [present |-> TRUE, v |-> x]] :
     x \in {"Basic", "Renamed", ""}}
PricePatches ==
  {[EmptyPatch EXCEPT !.packagePrice = x] :
     x \in {[present |-> TRUE, isNumber |-> TRUE, n |-> 24990],
            [present |-> TRUE, isNumber |-> TRUE, n |-> 30000],
            [present |-> TRUE, isNumber |-> FALSE, n |-> 0]}}
DaysPatches ==
  {[EmptyPatch EXCEPT !.deliveryDays = x] :
     x \in {[present |-> TRUE, isNumber |-> TRUE, n |-> 1],
            [present |-> TRUE, isNumber |-> TRUE, n |-> MaxDeliveries],
            [present |-> TRUE, isNumber |-> FALSE, n |-> 0]}}
SchedulePatches ==
  {[EmptyPatch EXCEPT !.deliverySchedule = [present |-> TRUE, v |-> x]] :
     x \in {<<>>, <<ParseDateString(1)>>,
            <<ParseDateString(1), ParseDateString(2)>>}}

AdminPatches ==
  StatusPatches \cup DeliveryStatusPatches \cup DriverPatches
  \cup SequencePatches \cup ProofPatches \cup AddressPatches
  \cup StartDatePatches \cup EndDatePatches \cup NamePatches
  \cup PricePatches \cup DaysPatches \cup SchedulePatches

\* ------------------------------------------------ OperationalDateService
SetCallers == {"a1", "a2"}

\* The instants the date strings of a payload parse to: a day at UTC
\* midnight, the same day at a later hour, and the next day.
SetInstants == {0, 1, DayTicks}
ValidEntries ==
  {[date |-> t, valid |-> TRUE, isDeliveryEnabled |-> b] :
     t \in SetInstants, b \in BOOLEAN}
\* An entry whose date string does not parse (isNaN(getTime())).
InvalidEntry == [date |-> 0, valid |-> FALSE, isDeliveryEnabled |-> TRUE]
Entries == ValidEntries \cup {InvalidEntry}

\* datesPayload: empty, one entry, or two entries for one calendar day of
\* which the second undoes the first or is invalid, or the first is invalid.
SameDayEntries == {e \in ValidEntries : DateString(e.date) = 0}
Payloads ==
  {<<>>} \cup {<<e>> : e \in Entries}
  \cup UNION {{<<e1, e2>> :
                  e2 \in {e \in SameDayEntries \cup {InvalidEntry} :
                            e.valid =>
                              e.isDeliveryEnabled # e1.isDeliveryEnabled}} :
               e1 \in SameDayEntries}
  \cup {<<InvalidEntry, e>> : e \in {x \in ValidEntries : x.date = 0}}

IdleSetCall ==
  [pc |-> "idle", payload |-> <<>>, next |-> 0, statusCode |-> 0,
   dirty |-> FALSE]

\* The date strings of a single-day query: "YYYY-MM-DD" of a day, or a
\* string that does not parse.
QueryDays == 0 .. 1
NoDay == 0 - 1
NoQuery == [dateString |-> NoDay, statusCode |-> 0, result |-> {}]

\* A date string kept with its time of day.
KeepTimeOfDay(t) == t

\* normalizedDate.setUTCHours(0, 0, 0, 0)
NormalizeDate(t) == UTCMidnight(t)

\* An upsert that writes isDeliveryEnabled only when it inserts.
SetOnInsertOnly(calendar, date, isDeliveryEnabled) ==
  IF \E r \in calendar : r.date = date
  THEN calendar
  ELSE calendar \cup {[date |-> date, isDeliveryEnabled |-> isDeliveryEnabled]}

\* One updateOne of the bulkWrite: filter { date }, $set isDeliveryEnabled,
\* $setOnInsert date, upsert.
UpsertOne(calendar, date, isDeliveryEnabled) ==
  IF \E r \in calendar : r.date = date
  THEN {IF r.date = date
        THEN [r EXCEPT !.isDeliveryEnabled = isDeliveryEnabled]
        ELSE r : r \in calendar}
  ELSE calendar \cup {[date |-> date, isDeliveryEnabled |-> isDeliveryEnabled]}

\* A service that checks only the first entry's date before it writes.
FirstEntryChecked(payload) == payload = <<>> \/ ~payload[1].valid

\* The checks made before bulkWrite is called: datesPayload is empty, or the
\* map over it throws at an entry whose date string does not parse.
PayloadRefused(payload) ==
  payload = <<>> \/ \E k \in 1 .. Len(payload) : ~payload[k].valid

\* setOperationalDates up to bulkWrite: an empty payload and a payload with
\* an invalid date string are refused (400) before anything is written.
SetOperationalDatesBegin(c, payload) ==
  /\ setCalls[c].pc \in {"idle", "done", "threw"}
  /\ setCalls' =
       [setCalls EXCEPT ![c] =
          IF PayloadRefused(payload)
          THEN [IdleSetCall EXCEPT !.pc = "threw", !.payload = payload,
                                   !.statusCode = 400]
          ELSE [IdleSetCall EXCEPT !.pc = "writing", !.payload = payload,
                                   !.next = 1]]
  /\ UNCHANGED <<tz, scheduledMember, webhook, lastQuery, everSet, now, customers,
                 packages, operationalDates, orders, inv, calls, events,
                 adminOps, everCreated, lastOp>>

\* The next operation of the (ordered) bulkWrite; the writes of concurrent
\* calls interleave operation by operation.  After the last one the affected
\* documents are read back and returned.
SetOperationalDatesWrite(c) ==
  /\ setCalls[c].pc = "writing"
  /\ LET call == setCalls[c]
         entry == call.payload[call.next]
         normalizedDate == NormalizeDate(entry.date)
     IN /\ operationalDates' =
             UpsertOne(operationalDates, normalizedDate, entry.isDeliveryEnabled)
        /\ everSet' = everSet \cup {DateString(normalizedDate)}
        /\ setCalls' =
             [x \in SetCallers |->
                IF x = c
                THEN IF call.next = Len(call.payload)
                     THEN [call EXCEPT !.pc = "done", !.statusCode = 200]
                     ELSE [call EXCEPT !.next = call.next + 1]
                ELSE IF setCalls[x].pc \in {"writing", "done"}
                     THEN [setCalls[x] EXCEPT !.dirty = TRUE]
                     ELSE setCalls[x]]
        /\ inv' = [i \in Invocations |->
                     IF inv[i].pc = "scan"
                     THEN [inv[i] EXCEPT !.calendars = @ \cup {operationalDates'}]
                     ELSE inv[i]]
  /\ UNCHANGED <<tz, scheduledMember, webhook, lastQuery, now, customers, packages,
                 orders, calls, events, adminOps, everCreated, lastOp>>

\* getOperationalDateStatus as the admin's single-date query: 400 for a
\* string that does not parse, else the record of the day or null.
GetOperationalDateStatusQuery(dateString) ==
  /\ lastQuery' =
       IF dateString = NoDay
       THEN [dateString |-> dateString, statusCode |-> 400, result |-> {}]
       ELSE [dateString |-> dateString, statusCode |-> 200,
             result |-> GetOperationalDateStatus(dateString)]
  /\ UNCHANGED <<tz, scheduledMember, webhook, setCalls, everSet, now, customers,
                 packages, operationalDates, orders, inv, calls, events,
                 adminOps, everCreated, lastOp>>

\* ---------------------------------------------------------- expiration job
\* A job whose filter leaves out the status.
EndDatePassed(o, at) == o.endDate <= at

\* The filter of expireOrders: status Active and endDate <= now.
ExpiryFilter(o, at) == o.status = OrderStatus_ACTIVE /\ o.endDate <= at

\* expireOrders: Order.updateMany(filter, { $set: { status: Expired } }); an
\* error of the store is logged and swallowed.
ExpireOrders(storageFails) ==
  /\ orders' = IF storageFails THEN orders
               ELSE {IF ExpiryFilter(o, now)
                     THEN [o EXCEPT !.status = OrderStatus_EXPIRED]
                     ELSE o : o \in orders}
  /\ lastOp' = [NoOp EXCEPT !.op = "expire", !.before = orders,
                            !.after = orders', !.at = now,
                            !.storeChanged = orders' # orders]
  /\ UNCHANGED <<tz, scheduledMember, webhook, calendarVars, now, customers,
                 packages, operationalDates, inv, calls, events, adminOps,
                 everCreated>>

\* --------------------------------------------------------- webhook handler
\* No answer given yet; retried: a 500 has been answered.
NoAnswer == [status |-> 0, retried |-> FALSE]

\* A handler that acknowledges the event whatever the service did.
AlwaysAcknowledged(pc) == 200

\* handleStripeEvents after createOrderFromPayment: 500 when it threw, so
\* that the gateway retries, else the 200 acknowledgment.
AnswerStatus(pc) == IF pc = "threw" THEN 500 ELSE 200

\* The handler answers the gateway.  After a 500 the gateway redelivers the
\* event, which is a new call of the service; after a 200 it stops.
HandleStripeEventsAnswer(i) ==
  /\ inv[i].pc \in {"threw", "returned"}
  /\ LET status == AnswerStatus(inv[i].pc)
     IN /\ webhook' = [status |-> status,
                       retried |-> webhook.retried \/ status = 500]
        /\ IF status = 200
           THEN /\ events' = {e \in events :
                                e.stripePaymentIntentId # inv[i].pi}
                /\ UNCHANGED inv
           ELSE /\ inv' = [inv EXCEPT ![i] = IdleInvocation]
                /\ UNCHANGED events
  /\ UNCHANGED <<tz, scheduledMember, calendarVars, now, customers, packages,
                 operationalDates, orders, calls, adminOps, everCreated,
                 lastOp>>

\* ------------------------------------------------------ package catalogue
\* updatePackage: Package.findByIdAndUpdate with a new price (404 when there
\* is no such Package).
UpdatePackage(id, price) ==
  /\ packages' = {IF p.id = id THEN [p EXCEPT !.price = price] ELSE p :
                     p \in packages}
  /\ UNCHANGED <<tz, scheduledMember, webhook, calendarVars, now, customers,
                 operationalDates, orders, inv, calls, events, adminOps,
                 everCreated, lastOp>>

\* deletePackage: Package.findByIdAndDelete (404 when there is none).
DeletePackage(id) ==
  /\ packages' = {p \in packages : p.id # id}
  /\ UNCHANGED <<tz, scheduledMember, webhook, calendarVars, now, customers,
                 operationalDates, orders, inv, calls, events, adminOps,
                 everCreated, lastOp>>

\* ---------------------------------------------------------- specification
\* The days the calendar can hold a record for: today and the days of the
\* scan window.
CalendarDays == 0 .. (MaxNow \div DayTicks) + MaxSearchDays + 1

CalendarOf(enabled) ==
  {[date |-> ParseDateString(d), isDeliveryEnabled |-> TRUE] : d \in enabled}

\* The payment-confirmed events of the given payment intents and amounts.
PaymentEvents(intents, amounts) ==
  {[stripePaymentIntentId |-> pi, amountPaid |-> a, userId |-> u,
    packageId |-> p] :
     pi \in intents, a \in amounts, u \in CustomerIds, p \in PackageIds}

InitWith(callers, delivered, offsets, members, prices, deliveries, calendars) ==
  /\ tz \in offsets
  /\ scheduledMember \in members
  /\ setCalls = [c \in SetCallers |-> IdleSetCall]
  /\ lastQuery = NoQuery
  /\ now = 0
  /\ customers = {[id |-> "c1", address |-> 1, city |-> 1, postalCode |-> 1,
                   currentLocation |-> Unset]}
  /\ \E price \in prices, days \in deliveries :
        packages = {[id |-> "p1", price |-> price, days |-> days]}
  /\ \E enabled \in calendars :
        /\ operationalDates = CalendarOf(enabled)
        /\ everSet = enabled
  /\ orders = {}
  /\ inv = [i \in Invocations |-> IdleInvocation]
  /\ calls = callers
  /\ events = delivered
  /\ adminOps = 0
  /\ everCreated = [pi \in PaymentIntents |-> 0]
  /\ lastOp = NoOp
  /\ webhook = NoAnswer

\* Concurrent payment notifications on a calendar with every day enabled.
Init ==
  InitWith(Invocations, PaymentEvents(PaymentIntents, Amounts), {0},
           {Undefined}, {24990},
           {MaxDeliveries}, {CalendarDays})

\* One payment notification, on every calendar, server time zone and package.
InitSchedule ==
  InitWith({"i1"}, PaymentEvents({"pi_1"}, Amounts), TZOffsets,
           ScheduledMemberValues, Prices,
           1 .. MaxDeliveries, SUBSET CalendarDays)

\* One paid Order and the admin's operations on it.
InitAdmin ==
  InitWith({"i1"}, PaymentEvents({"pi_1"}, {2499}), {0}, {Undefined},
           {24990},
           {MaxDeliveries}, {CalendarDays})

Fulfil ==
  \/ \E i \in Invocations, f \in BOOLEAN : \E e \in events : Begin(i, e, f)
  \/ \E i \in Invocations, g \in GeocodeOutcomes : GeocodeDone(i, g)
  \/ \E i \in Invocations, f \in BOOLEAN : ScanDay(i, f)
  \/ \E i \in Invocations, f \in BOOLEAN : Create(i, f)
  \/ \E i \in Invocations, f \in BOOLEAN : Commit(i, f)
  \/ Tick

Next ==
  \/ Fulfil
  \/ \E id \in AdminOrderIds : DeleteAdminOrder(id)

NextAdmin ==
  \/ Fulfil
  \/ \E id \in AdminOrderIds : DeleteAdminOrder(id)
  \/ \E id \in AdminOrderIds, patch \in AdminPatches : UpdateAdminOrder(id, patch)
  \/ \E id \in AdminOrderIds : GetAdminOrderById(id)

\* The admin's calendar operations, on their own.
InitCalendar ==
  InitWith({}, {}, {0}, {Undefined}, {24990}, {MaxDeliveries}, {{}})

NextCalendar ==
  \/ \E c \in SetCallers, payload \in Payloads :
        SetOperationalDatesBegin(c, payload)
  \/ \E c \in SetCallers : SetOperationalDatesWrite(c)
  \/ \E d \in QueryDays \cup {NoDay} : GetOperationalDateStatusQuery(d)

Spec == Init /\ [][Next]_vars
SpecSchedule == InitSchedule /\ [][Next]_vars
SpecAdmin == InitAdmin /\ [][NextAdmin]_vars

\* Notifications whose metadata names a Customer or a Package that is not in
\* the store.
UnknownCustomer == "c0"
UnknownPackage == "p0"
CatalogueEvents ==
  PaymentEvents({"pi_1"}, {2499})
  \cup {[stripePaymentIntentId |-> "pi_2", amountPaid |-> 2499,
         userId |-> UnknownCustomer, packageId |-> "p1"],
        [stripePaymentIntentId |-> "pi_2", amountPaid |-> 2499,
         userId |-> "c1", packageId |-> UnknownPackage]}

\* Payment notifications, repeated ones included, while the admin edits and
\* deletes the package.
InitCatalogue ==
  InitWith(Invocations, CatalogueEvents, {0}, {Undefined}, {24990}, {1},
           {CalendarDays})

NextCatalogue ==
  \/ Fulfil
  \/ \E id \in PackageIds \cup {UnknownPackage}, price \in Prices :
        UpdatePackage(id, price)
  \/ \E id \in PackageIds \cup {UnknownPackage} : DeletePackage(id)

SpecCalendar == InitCalendar /\ [][NextCalendar]_vars
SpecCatalogue == InitCatalogue /\ [][NextCatalogue]_vars

\* Two paid Orders created without failures, the admin's changes of status
\* and endDate, and the expiration job.
InitExpiry ==
  InitWith(Invocations, PaymentEvents(PaymentIntents, {2499}), {0},
           {Undefined}, {24990}, {1}, {CalendarDays})

NextExpiry ==
  \/ \E i \in Invocations : \E e \in events : Begin(i, e, FALSE)
  \/ \E i \in Invocations : GeocodeDone(i, "found")
  \/ \E i \in Invocations : ScanDay(i, FALSE)
  \/ \E i \in Invocations : Create(i, FALSE)
  \/ \E i \in Invocations : Commit(i, FALSE)
  \/ Tick
  \/ \E id \in Invocations, patch \in StatusPatches \cup EndDatePatches :
        UpdateAdminOrder(id, patch)
  \/ \E f \in BOOLEAN : ExpireOrders(f)

SpecExpiry == InitExpiry /\ [][NextExpiry]_vars

\* setOperationalDates payloads that enable days a scan looks at.
ScanRacePayloads ==
  {<<[date |-> ParseDateString(d), valid |-> TRUE, isDeliveryEnabled |-> TRUE]>> :
     d \in 1 .. 2}
  \cup {<<[date |-> ParseDateString(1), valid |-> TRUE, isDeliveryEnabled |-> TRUE],
          [date |-> ParseDateString(2), valid |-> TRUE, isDeliveryEnabled |-> TRUE]>>}

\* One payment notification whose scan runs while the admin sets days of
\* the calendar; no failures, server in UTC.
InitScanRace ==
  InitWith({"i1"}, PaymentEvents({"pi_1"}, {2499}), {0}, {Undefined},
           {24990}, 1 .. MaxDeliveries, SUBSET {MaxSearchDays + 1})

NextScanRace ==
  \/ \E i \in Invocations : \E e \in events : Begin(i, e, FALSE)
  \/ \E i \in Invocations : GeocodeDone(i, "found")
  \/ \E i \in Invocations : ScanDay(i, FALSE)
  \/ \E i \in Invocations : Create(i, FALSE)
  \/ \E i \in Invocations : Commit(i, FALSE)
  \/ \E c \in SetCallers, payload \in ScanRacePayloads :
        SetOperationalDatesBegin(c, payload)
  \/ \E c \in SetCallers : SetOperationalDatesWrite(c)

SpecScanRace == InitScanRace /\ [][NextScanRace]_vars

\* Concurrent and repeated notifications of one payment intent, with every
\* failure of the store, a failing abort on the duplicate path included.
InitSession ==
  InitWith(Invocations, PaymentEvents({"pi_1"}, Amounts), {0}, {Undefined},
           {24990}, {1}, {CalendarDays})

NextSession ==
  \/ Fulfil
  \/ \E i \in Invocations : \E e \in events : BeginAbortFails(i, e)

SpecSession == InitSession /\ [][NextSession]_vars

\* One paid checkout event that the gateway redelivers until it is answered
\* with 200.  Storage and lookup failures are transient: they occur only
\* while the clock has not reached MaxNow.
InitWebhook ==
  InitWith({"i1"}, PaymentEvents({"pi_1"}, {2499}), {0}, {Undefined},
           {24990}, 1 .. MaxDeliveries, {CalendarDays})

FailuresOccur == now < MaxNow

WebhookSteps ==
  \/ \E i \in Invocations, f \in BOOLEAN : \E e \in events :
        (f => FailuresOccur) /\ Begin(i, e, f)
  \/ \E i \in Invocations, g \in GeocodeOutcomes : GeocodeDone(i, g)
  \/ \E i \in Invocations, f \in BOOLEAN :
        (f => FailuresOccur) /\ ScanDay(i, f)
  \/ \E i \in Invocations, f \in BOOLEAN :
        (f => FailuresOccur) /\ Create(i, f)
  \/ \E i \in Invocations, f \in BOOLEAN :
        (f => FailuresOccur) /\ Commit(i, f)
  \/ \E i \in Invocations : HandleStripeEventsAnswer(i)

NextWebhook == WebhookSteps \/ Tick

\* The service and the gateway keep taking steps, and the clock advances.
SpecWebhook ==
  InitWebhook /\ [][NextWebhook]_vars /\ WF_vars(WebhookSteps) /\ WF_vars(Tick)

\* ----------------------------------------------------------------- claims
WrittenBy(i) == {o \in orders : o.id = i}

\* C1: in every reachable state, under any interleaving of concurrent
\* createOrderFromPayment calls, the store holds at most one Order of each
\* payment intent.
C1_AtMostOneOrderPerPaymentIntent ==
  \A o1 \in orders, o2 \in orders :
     o1.paymentDetails.stripePaymentIntentId
       = o2.paymentDetails.stripePaymentIntentId => o1 = o2

\* Two calls of one payment intent both passed the idempotency check; one
\* committed its Order and the other's insert hit the unique index.
C1_RaceHappened ==
  \E i \in Invocations, j \in Invocations :
     /\ i # j /\ inv[i].pi = inv[j].pi
     /\ ~inv[i].existed /\ ~inv[j].existed
     /\ inv[i].tx = "committed" /\ WrittenBy(i) # {}
     /\ inv[j].errAt = "duplicate-key"

\* C2: the call that loses the race on the unique index catches the conflict
\* and returns the Order the winner created; no error reaches its caller.
C2_LoserReturnsExistingOrder ==
  \A i \in Invocations :
     inv[i].errAt = "duplicate-key" =>
        /\ inv[i].pc = "returned"
        /\ inv[i].result # {}
        /\ \A o \in inv[i].result :
              o.paymentDetails.stripePaymentIntentId = inv[i].pi

\* C3: a call that finds an Order of its payment intent (customer, package
\* and amount being as at the purchase) returns that Order, aborts its
\* transaction, writes no Order of its own and does not call the geocoder.
C3_ExistingOrderIsReturned ==
  \A i \in Invocations :
     (inv[i].existed /\ inv[i].errAt = "") =>
        /\ inv[i].pc = "returned"
        /\ inv[i].tx = "aborted" /\ inv[i].ended
        /\ inv[i].geocodeCalls = 0
        /\ inv[i].pending = {} /\ WrittenBy(i) = {}
        /\ inv[i].result # {}
        /\ \A o \in inv[i].result :
              /\ o.paymentDetails.stripePaymentIntentId = inv[i].pi
              /\ o.id # i /\ inv[o.id].tx = "committed"

\* A repeated notification was answered with the Order of the first one.
C3_DuplicateNotificationAnswered ==
  \E i \in Invocations :
     /\ inv[i].existed /\ inv[i].errAt = "" /\ inv[i].pc = "returned"
     /\ inv[i].result \subseteq orders /\ inv[i].result # {}

\* C4: every persisted Order has as many schedule entries as deliveryDays,
\* in strictly ascending order, with startDate the first entry and endDate
\* the last.
C4_ScheduleInvariant ==
  \A o \in orders :
     /\ Len(o.deliverySchedule) = o.deliveryDays
     /\ IsAscending(o.deliverySchedule)
     /\ o.startDate = o.deliverySchedule[1]
     /\ o.endDate = o.deliverySchedule[Len(o.deliverySchedule)]

\* The days the scan of an invocation looks up: MaxSearchDays + 1 days from
\* the start of the day after the Order was placed.
ScanWindow(r) ==
  {AddDays(StartOfDay(UTCMidnight(AddDays(r.orderStartDate, 1))), k) :
     k \in 0 .. MaxSearchDays}
EnabledInWindow(r) ==
  {d \in ScanWindow(r) :
     \E rec \in operationalDates :
        /\ rec.date = UTCMidnight(ParseDateString(DateString(d)))
        /\ rec.isDeliveryEnabled}
ScanIsOver(r) ==
  \/ r.pc \in {"create", "commit"}
  \/ r.pc = "returned" /\ r.tx = "committed"
  \/ r.pc = "threw" /\ r.errAt \in {"schedule", "create", "duplicate-key",
                                    "commit"}

C6_AmountMismatchIsValidationError ==
  \A i \in Invocations :
     inv[i].errAt = "amount" => inv[i].statusCode = 400

\* C7: when the geocoder returns null, times out or throws, the call goes
\* on: it never fails at the geocoding step, and the Order it commits has
\* neither latitude nor longitude.
C7_GeocodeFailureNotFatal ==
  \A i \in Invocations :
     inv[i].geo \in {"null", "throws"} =>
        /\ inv[i].pc \in {"scan", "create", "commit", "returned", "threw"}
        /\ inv[i].pc = "threw" =>
              inv[i].errAt \in {"schedule", "create", "duplicate-key", "commit"}
        /\ inv[i].pc = "returned" =>
              /\ inv[i].tx = "committed" /\ inv[i].result # {}
              /\ \A o \in inv[i].result :
                    /\ o.deliveryAddress.latitude = Unset
                    /\ o.deliveryAddress.longitude = Unset
        /\ \A o \in WrittenBy(i) :
              /\ o.deliveryAddress.latitude = Unset
              /\ o.deliveryAddress.longitude = Unset

\* The geocoder threw and the Order was committed without coordinates.
C7_OrderCreatedAfterGeocoderThrew ==
  \E i \in Invocations :
     /\ inv[i].geo = "throws" /\ inv[i].tx = "committed"
     /\ \E o \in WrittenBy(i) : o.deliveryAddress.latitude = Unset

IsNoOpPatch(patch, o) ==
  /\ ~patch.deliverySchedule.present
  /\ patch.status.present => patch.status.v = o.status
  /\ patch.deliveryStatus.present => patch.deliveryStatus.v = o.deliveryStatus
  /\ patch.assignedDriver.present =>
        \/ patch.assignedDriver.kind = "null" /\ o.assignedDriver = "null"
        \/ /\ patch.assignedDriver.kind \in {"string", "object"}
           /\ patch.assignedDriver.id # ""
           /\ patch.assignedDriver.id = o.assignedDriver
  /\ patch.deliverySequence.present =>
        /\ patch.deliverySequence.isNumber
        /\ patch.deliverySequence.n = o.deliverySequence
  /\ patch.proofOfDeliveryUrl.present =>
        patch.proofOfDeliveryUrl.v = o.proofOfDeliveryUrl
  /\ patch.deliveryAddress.present =>
        /\ patch.deliveryAddress.isObject
        /\ \A k \in AddressKeys :
              \/ patch.deliveryAddress.v[k] = NotInPatch
              \/ patch.deliveryAddress.v[k] = o.deliveryAddress[k]
  /\ patch.startDate.present =>
        /\ patch.startDate.isString /\ patch.startDate.valid
        /\ patch.startDate.t = o.startDate
  /\ patch.endDate.present =>
        /\ patch.endDate.isString /\ patch.endDate.valid
        /\ patch.endDate.t = o.endDate
  /\ patch.packageName.present => patch.packageName.v = o.packageName
  /\ patch.packagePrice.present =>
        /\ patch.packagePrice.isNumber
        /\ patch.packagePrice.n = o.packagePrice
  /\ patch.deliveryDays.present =>
        /\ patch.deliveryDays.isNumber
        /\ patch.deliveryDays.n = o.deliveryDays

C10_CreatedAtMostOnceEver ==
  \A pi \in PaymentIntents : everCreated[pi] <= 1

\* C11: after any sequence of setOperationalDates calls, concurrent ones and
\* payloads with several entries for one calendar day included, the calendar
\* holds at most one record per UTC calendar day and every record's date is
\* at UTC midnight.
C11_OneRecordPerDayAtUTCMidnight ==
  /\ \A r1 \in operationalDates, r2 \in operationalDates :
        DateString(r1.date) = DateString(r2.date) => r1 = r2
  /\ \A r \in operationalDates : r.date = UTCMidnight(r.date)

\* Two calls, one of them with two entries, have written the same calendar
\* day from date strings with different times of day.
C11_SameDayWrittenTwice ==
  \E c1 \in SetCallers, c2 \in SetCallers :
     /\ c1 # c2
     /\ setCalls[c1].pc = "done" /\ setCalls[c2].pc = "done"
     /\ setCalls[c1].dirty /\ Len(setCalls[c1].payload) = 2
     /\ setCalls[c1].payload[1].date # setCalls[c1].payload[2].date
     /\ \E k \in 1 .. Len(setCalls[c2].payload) :
           /\ setCalls[c2].payload[k].date # UTCMidnight(setCalls[c2].payload[k].date)
           /\ DateString(setCalls[c2].payload[k].date)
                = DateString(setCalls[c1].payload[1].date)
     /\ Cardinality(operationalDates) = 1

\* The start handed to getAvailableDates: the UTC midnight after the order.
ScanStart(r) == UTCMidnight(AddDays(r.orderStartDate, 1))
\* The calendar days the calendar records as enabled.
EnabledDays ==
  {DateString(rec.date) : rec \in {x \in operationalDates : x.isDeliveryEnabled}}
\* The calendar days of a list of dates.
DaysOf(s) == {DateString(s[k]) : k \in 1 .. Len(s)}

\* C12: on a fixed calendar and with no lookup failing, a getAvailableDates
\* that succeeds returns the first count enabled calendar days on or after
\* start: ascending, without duplicates, none skipped; so the result is a
\* function of the calendar and the inputs.
C12_FirstEnabledDaysFromStart ==
  \A i \in Invocations :
     (inv[i].pc = "create" /\ inv[i].failedDays = {}) =>
        LET s == inv[i].scheduledDates
            first == DateString(ScanStart(inv[i]))
            last == DateString(s[Len(s)])
        IN /\ Len(s) = inv[i].numberOfDeliveries
           /\ IsAscending(s)
           /\ Cardinality(DaysOf(s)) = Len(s)
           /\ DaysOf(s) = {d \in EnabledDays : first <= d /\ d <= last}

\* C13: in updateAdminOrder an assignedDriver of null unassigns the driver,
\* a valid id string or an object with a valid _id sets that driver, and
\* any other shape leaves assignedDriver as it was; the call does not fail.
C13_AssignedDriverNormalised ==
  (lastOp.op = "update" /\ lastOp.before # {}
   /\ lastOp.patch.assignedDriver.present) =>
     LET f == lastOp.patch.assignedDriver
     IN /\ lastOp.statusCode = 200
        /\ lastOp.after # {}
        /\ \A b \in lastOp.before, a \in lastOp.after :
              IF f.kind = "null" THEN a.assignedDriver = "null"
              ELSE IF f.kind \in {"string", "object"} /\ f.id \in DriverIds
                   THEN a.assignedDriver = f.id
                   ELSE a.assignedDriver = b.assignedDriver

\* C14: updateAdminOrder changes only allow-listed fields: orderNumber,
\* customer, package, paymentDetails and deliverySchedule are after the call
\* what they were before, and so is every field the payload does not carry.
C14_OnlyAllowListedFieldsChange ==
  (lastOp.op = "update" /\ lastOp.before # {}) =>
     \A b \in lastOp.before, a \in lastOp.after :
        LET p == lastOp.patch
        IN /\ a.orderNumber = b.orderNumber
           /\ a.customer = b.customer
           /\ a.package = b.package
           /\ a.paymentDetails = b.paymentDetails
           /\ a.deliverySchedule = b.deliverySchedule
           /\ ~p.status.present => a.status = b.status
           /\ ~p.deliveryStatus.present => a.deliveryStatus = b.deliveryStatus
           /\ ~p.assignedDriver.present => a.assignedDriver = b.assignedDriver
           /\ ~p.deliverySequence.present =>
                 a.deliverySequence = b.deliverySequence
           /\ ~p.proofOfDeliveryUrl.present =>
                 a.proofOfDeliveryUrl = b.proofOfDeliveryUrl
           /\ ~p.deliveryAddress.present =>
                 a.deliveryAddress = b.deliveryAddress
           /\ ~p.startDate.present => a.startDate = b.startDate
           /\ ~p.endDate.present => a.endDate = b.endDate
           /\ ~p.packageName.present => a.packageName = b.packageName
           /\ ~p.packagePrice.present => a.packagePrice = b.packagePrice
           /\ ~p.deliveryDays.present => a.deliveryDays = b.deliveryDays

\* C15: getAdminOrderById, updateAdminOrder and deleteAdminOrder answer 400
\* for a malformed id and 404 for a well-formed id without an Order;
\* updateAdminOrder answers 400 when the validators reject the save (a status
\* outside the enumeration, an empty packageName); in every such outcome the
\* stored Orders are what they were.
C15_AdminErrorsLeaveStoreUnchanged ==
  lastOp.op \in {"get", "update", "delete"} =>
     /\ lastOp.id = "not-an-id" => lastOp.statusCode = 400
     /\ (lastOp.id # "not-an-id" /\ lastOp.before = {}) =>
           lastOp.statusCode = 404
     /\ (lastOp.op = "update" /\ lastOp.before # {}
         /\ \/ lastOp.patch.status.present
               /\ lastOp.patch.status.v \notin OrderStatus
            \/ lastOp.patch.packageName.present
               /\ lastOp.patch.packageName.v = "") =>
           lastOp.statusCode = 400
     /\ lastOp.statusCode >= 400 =>
           /\ ~lastOp.storeChanged
           /\ lastOp.after = {}
           /\ lastOp.before \subseteq orders

\* An update with a status outside the enumeration was saved, rejected by
\* the validators and answered with 400; the Order is as it was.
C15_SaveRejected ==
  /\ lastOp.op = "update" /\ lastOp.statusCode = 400 /\ lastOp.saveCalled
  /\ lastOp.patch.status.present
  /\ lastOp.before # {} /\ lastOp.before \subseteq orders

\* The last entry of a payload for a calendar day.
LastEntryFor(payload, day) ==
  LET ks == {k \in 1 .. Len(payload) : DateString(payload[k].date) = day}
  IN payload[CHOOSE k \in ks : \A j \in ks : j <= k]

\* C16: once setOperationalDates has succeeded (and nobody else has written
\* since it began), getOperationalDateStatus of each day of its payload
\* returns one record whose isDeliveryEnabled is that of the last entry for
\* the day; for a day never set it returns null, which is not a record with
\* isDeliveryEnabled false.
C16_StatusIsLastEntrySet ==
  /\ \A c \in SetCallers :
        (setCalls[c].pc = "done" /\ ~setCalls[c].dirty) =>
           \A k \in 1 .. Len(setCalls[c].payload) :
              LET day == DateString(setCalls[c].payload[k].date)
                  got == GetOperationalDateStatus(day)
              IN /\ Cardinality(got) = 1
                 /\ \A r \in got :
                       r.isDeliveryEnabled =
                         LastEntryFor(setCalls[c].payload, day).isDeliveryEnabled
  /\ \A day \in QueryDays :
        day \notin everSet => GetOperationalDateStatus(day) = {}

\* A payload enabled a day and then disabled it; the query of that day
\* answered with the disabled record, and the query would answer null for
\* the other day, which was never set.
C16_DisabledIsNotNull ==
  \E c \in SetCallers :
     /\ setCalls[c].pc = "done" /\ ~setCalls[c].dirty
     /\ Len(setCalls[c].payload) = 2
     /\ setCalls[c].payload[1].isDeliveryEnabled
     /\ ~setCalls[c].payload[2].isDeliveryEnabled
     /\ lastQuery.dateString = 0 /\ lastQuery.statusCode = 200
     /\ lastQuery.result = GetOperationalDateStatus(0)
     /\ \E r \in lastQuery.result : ~r.isDeliveryEnabled
     /\ 1 \notin everSet /\ GetOperationalDateStatus(1) = {}

\* C17: getAvailableDates looks up at most maxSearchDays calendar days, the
\* days start .. start + maxSearchDays - 1: it returns no date that is
\* maxSearchDays or more days after the first day it looks at, and it stops
\* as soon as it has collected count dates.
C17_AtMostMaxSearchDaysLookedUp ==
  \A i \in Invocations :
     inv[i].pc \in {"scan", "create"} =>
        /\ inv[i].daysSearched <= MaxSearchDays
        /\ \A k \in 1 .. Len(inv[i].scheduledDates) :
              inv[i].scheduledDates[k]
                < AddDays(StartOfDay(ScanStart(inv[i])), MaxSearchDays)
        /\ inv[i].pc = "scan" =>
              Len(inv[i].scheduledDates) < inv[i].numberOfDeliveries

\* C18: a day whose calendar lookup throws during the scan is treated as
\* not enabled and the scan goes on with the next day; so is a day without a
\* record.  Every scheduled date is a day that was looked up without error
\* and has an enabled record, and the only error the scan gives its caller
\* is the shortfall (400).
C18_FailedLookupIsNotEnabled ==
  \A i \in Invocations :
     /\ inv[i].pc \in {"scan", "create"} =>
           /\ \A k \in 1 .. Len(inv[i].scheduledDates) :
                 /\ DateString(inv[i].scheduledDates[k]) \notin inv[i].failedDays
                 /\ DateString(inv[i].scheduledDates[k]) \in EnabledDays
           /\ Len(inv[i].scheduledDates) + Cardinality(inv[i].failedDays)
                <= inv[i].daysSearched
           /\ inv[i].errAt = ""
     /\ (inv[i].pc = "threw" /\ inv[i].errAt = "schedule") =>
           inv[i].statusCode = 400

\* The lookup of an enabled day threw, the scan went on, and a later day
\* completed the schedule.
C18_ScanWentOnAfterFailure ==
  \E i \in Invocations :
     /\ inv[i].pc = "create"
     /\ \E d \in inv[i].failedDays :
           /\ d \in EnabledDays
           /\ \E k \in 1 .. Len(inv[i].scheduledDates) :
                 d < DateString(inv[i].scheduledDates[k])

C20_AdminUpdateKeepsScheduleInvariant ==
  LET Holds(o) ==
        /\ Len(o.deliverySchedule) = o.deliveryDays
        /\ IsAscending(o.deliverySchedule)
        /\ Len(o.deliverySchedule) > 0
        /\ o.startDate = o.deliverySchedule[1]
        /\ o.endDate = o.deliverySchedule[Len(o.deliverySchedule)]
  IN (lastOp.op = "update" /\ lastOp.statusCode = 200) =>
        \A b \in lastOp.before :
           Holds(b) => \A a \in lastOp.after : Holds(a)

\* C21: a setOperationalDates call whose payload has an entry with an
\* invalid date string fails with 400, and the step in which it does so
\* creates or changes no calendar record, the valid entries of the payload
\* included: the call never gets to write.
C21_InvalidPayloadWritesNothing ==
  [][\A c \in SetCallers :
        (/\ setCalls'[c] # setCalls[c]
         /\ \E k \in 1 .. Len(setCalls'[c].payload) :
               ~setCalls'[c].payload[k].valid)
        => /\ setCalls'[c].pc = "threw"
           /\ setCalls'[c].statusCode = 400
           /\ setCalls'[c].next = 0
           /\ operationalDates' = operationalDates
           /\ everSet' = everSet]_vars

\* A payload with a valid entry for a day followed by an invalid one was
\* refused, and the calendar has no record of that day.
C21_ValidEntryOfRefusedPayloadNotWritten ==
  \E c \in SetCallers :
     /\ setCalls[c].pc = "threw"
     /\ Len(setCalls[c].payload) = 2
     /\ setCalls[c].payload[1].valid /\ ~setCalls[c].payload[2].valid
     /\ GetOperationalDateStatus(DateString(setCalls[c].payload[1].date)) = {}

\* C22: when the Customer or the Package the payment event names does not
\* exist, createOrderFromPayment fails with a NotFound (404) error, its
\* transaction is aborted and it creates no Order.
C22_MissingCustomerOrPackageIsNotFound ==
  \A i \in Invocations :
     inv[i].errAt \in {"customer", "package"} =>
        /\ inv[i].pc = "threw"
        /\ inv[i].statusCode = 404
        /\ inv[i].tx = "aborted" /\ inv[i].ended
        /\ WrittenBy(i) = {}

\* C23: no Order has deliveryStatus Assigned while its assignedDriver is
\* null; an update that moves deliveryStatus to Assigned leaves a driver set.
C23_AssignedHasDriver ==
  \A o \in orders :
     o.deliveryStatus = DeliveryStatus_ASSIGNED => o.assignedDriver # "null"

\* C24: for a deliveryAddress patch, a successful updateAdminOrder sets every
\* address field the patch carries to the patch value, whether or not the
\* field is set on the Order, leaves the other address fields as they were,
\* and saves exactly when some carried field differs from the stored one.
C24_AddressPatchApplied ==
  (/\ lastOp.op = "update" /\ lastOp.statusCode = 200
   /\ lastOp.patch.deliveryAddress.present
   /\ lastOp.patch.deliveryAddress.isObject) =>
     \A b \in lastOp.before, a \in lastOp.after :
        LET v == lastOp.patch.deliveryAddress.v
        IN /\ \A k \in AddressKeys :
                 IF v[k] # NotInPatch
                 THEN a.deliveryAddress[k] = v[k]
                 ELSE a.deliveryAddress[k] = b.deliveryAddress[k]
           /\ lastOp.saveCalled <=>
                \E k \in AddressKeys :
                   v[k] # NotInPatch /\ v[k] # b.deliveryAddress[k]

\* C25: while the gateway redelivers a paid checkout event until it gets 200
\* and the failures inside createOrderFromPayment are transient, every failed
\* creation is answered with 500 and leaves no Order, and eventually the
\* handler has answered 200 and exactly one Order of the event's payment
\* intent exists, from then on.
C25_RetriedUntilOneOrder ==
  /\ [][\A i \in Invocations :
           (inv[i].pc = "threw" /\ inv'[i].pc # "threw") =>
              /\ webhook'.status = 500
              /\ ExistingOrders("pi_1") = {}]_vars
  /\ <>[](/\ webhook.status = 200
          /\ Cardinality(ExistingOrders("pi_1")) = 1
          /\ everCreated["pi_1"] = 1)

\* The event was answered with 500 at least once and then with 200, the
\* Order being there.
C25_AcknowledgedAfterRetry ==
  /\ webhook.retried /\ webhook.status = 200
  /\ Cardinality(ExistingOrders("pi_1")) = 1

C27_ScheduledDatesAreUTCMidnights ==
  \A i \in Invocations :
     inv[i].pc \in {"scan", "create"} =>
        \A k \in 1 .. Len(inv[i].scheduledDates) :
           LET d == inv[i].scheduledDates[k]
               dateString == DateString(d)
           IN /\ d = ParseDateString(dateString)
              /\ d = UTCMidnight(d)
              /\ dateString \in EnabledDays

\* getAvailableDates run to its end on one fixed calendar: the dates found
\* when the loop stops.
RECURSIVE ScanOver(_, _, _, _, _)
ScanOver(calendar, currentDate, daysSearched, scheduledDates, count) ==
  IF ~ScanContinues(scheduledDates, count, daysSearched)
  THEN scheduledDates
  ELSE LET queryDate == UTCMidnight(ParseDateString(DateString(currentDate)))
           enabled == \E rec \in calendar :
                         rec.date = queryDate /\ rec.isDeliveryEnabled
       IN ScanOver(calendar, StartOfDay(AddDays(currentDate, 1)),
                   daysSearched + 1,
                   IF enabled THEN Append(scheduledDates, currentDate)
                   ELSE scheduledDates,
                   count)

\* C28: when setOperationalDates writes interleave with a scan, the schedule
\* the scan returns is the schedule of one single calendar state that
\* existed during the scan: getAvailableDates run on that state alone would
\* return the same dates.
C28_ScheduleOfOneSnapshot ==
  \A i \in Invocations :
     (inv[i].pc = "create" /\ inv[i].failedDays = {}) =>
        \E calendar \in inv[i].calendars :
           ScanOver(calendar, StartOfDay(ScanStart(inv[i])), 0, <<>>,
                    inv[i].numberOfDeliveries)
             = inv[i].scheduledDates

\* C29: a notification whose payment intent already has an Order is never
\* an error and returns that Order, also when the package's price was
\* changed or the package was deleted since the first notification (the
\* store itself answering).
C29_DuplicateReturnsOrderDespiteCatalogueChange ==
  \A i \in Invocations :
     (inv[i].existed /\ inv[i].errAt # "fetch") =>
        /\ inv[i].pc = "returned"
        /\ inv[i].errAt = ""
        /\ inv[i].result # {}
        /\ \A o \in inv[i].result :
              o.paymentDetails.stripePaymentIntentId = inv[i].pi

====
